---- MODULE Spec2Model ----
(***************************************************************************)
(* Poster-Peta: the job/progress registry of app.py, the poster job        *)
(* create_poster_async -> create_poster, the three geo-data fetchers with  *)
(* their pickle cache, and the parallel fetch coordinator                  *)
(* fetch_map_data_parallel.                                                *)
(*                                                                         *)
(* Spec     one poster job (create_poster_async) with api_cancel.          *)
(* SpecPar  rounds of fetch_map_data_parallel with api_cancel.             *)
(***************************************************************************)
EXTENDS Integers, Sequences, FiniteSets, TLC

\* ---------------------------------------------------------------- bounds
MaxThemes == 2
MaxRounds == 2

\* ------------------------------------------------------------- constants
Tid == "t1"
Datasets == {"streets", "water", "parks"}

\* progress_steps values written by the fetcher wrappers and the coordinator
StepStarted == 10
StepComplete == 100

\* the phases create_poster reports, in program order
Phases ==
    << "fetching_streets", "fetching_water", "fetching_parks", "render_setup",
       "render_layers_water", "render_layers_parks", "render_boundary",
       "render_roads", "render_gradients", "render_text", "render_save" >>

PhStreets == 1
PhWater == 2
PhParks == 3
PhSetup == 4
PhRoads == 8
PhSave == 11

PhaseMessage ==
    << "Mengunduh jaringan jalan...", "Mengunduh fitur air...",
       "Mengunduh taman dan ruang hijau...", "Menyiapkan kanvas render...",
       "Menggambar layer air...", "Menggambar layer ruang hijau...",
       "Menggambar garis batas wilayah...", "Menggambar jaringan jalan...",
       "Menambahkan efek gradient...", "Menambahkan tipografi...",
       "Menyimpan hasil poster..." >>

MsgCancelled == "Dibatalkan oleh pengguna"
ExcCancelled == "cancelled"
ExcNoGraph == "Gagal mengambil jaringan jalan (hasil kosong). Coba kurangi skala atau lokasi lain."
ExcParNoGraph == "Failed to fetch street network data"
ExcRender == "render failure"
ExcUnpickle == "Ran out of input"
ExcTheme == "theme file unreadable"
ExcTypeError == "stat: path should be string, bytes, os.PathLike or integer, not NoneType"
ExcGeocode == "Could not find coordinates"

VARIABLES
    progress_status,  \* app.progress_status: task id -> status dict
    hitsHeap,         \* the cache_hits dict objects, by reference
    stepsHeap,        \* the progress_steps dict objects, by reference
    cache,            \* CACHE_DIR: dataset key -> "none" | "bad" | "data" | "empty"
    f,                \* the three fetcher activations
    variant,          \* "job": create_poster_async, "par": fetch_map_data_parallel
    mode,             \* "polygon" | "point": which fetcher pair a round uses
    input,            \* request data of the job, until it is resolved
    pc,               \* position of the job thread
    ph,               \* phase of create_poster the job thread is in
    themeIdx,         \* index into theme_list
    nThemes,          \* Len(theme_list)
    themeSrc,         \* "file" | "custom" | "custom_none"
    clean,            \* the clean flag of the request
    output_files,     \* output_files of create_poster_async
    output_file,      \* output_file of create_poster_async (0 is None)
    G,                \* create_poster locals
    water,
    parks,
    cpc,              \* position of fetch_map_data_parallel
    round,            \* rounds of fetch_map_data_parallel so far
    results,          \* results of fetch_map_data_parallel
    psteps,           \* reference of the round's progress_steps
    chits,            \* reference of the round's cache_hits
    cancelSeen,       \* history: a report checkpoint saw cancelled = True
    provCalls,        \* history: provider calls per dataset
    renderOps,        \* history: render phases started
    saves,            \* history: artifacts written by savefig
    errCount,         \* history: updates with status error
    complCount,       \* history: updates with status completed
    failure,          \* history: why the job failed
    prov,             \* history: what the provider gave per dataset this round
    rendered,         \* history: the renderer was invoked this round
    lateWork,         \* history: work begun after a checkpoint saw the cancel
    lastStatus,       \* history: status and message of the latest update naming them
    reported,         \* history: the latest cache_cb report per dataset (of the round)
    warm,             \* history: the round began with all three datasets cached
    snap,             \* api_progress: the copy of the record it holds (0 is none)
    snapAt,           \* history: the record, dicts included, when it was copied
    resp,             \* the latest response of api_progress or api_cancel
    seed,             \* the string-hash seed of the running process
    qa,               \* a query, and the key and file computed for it
    ka,
    qb,               \* a second query, and the key and file computed for it
    kb,
    disk,             \* CACHE_DIR: file name -> content
    wrote,            \* history: the latest cache_set: file, payload, outcome
    loaded,           \* what the latest cache_get returned
    fetcher,          \* the fetcher two threads call with the same arguments
    th,               \* the two activations of that fetcher
    THEME,            \* create_map_poster.THEME, one for the process
    rj                \* the job threads in their theme loops

jobVars == << input, pc, ph, themeIdx, nThemes, themeSrc, clean, output_files,
              output_file, G, water, parks >>
parVars == << cpc, round, results, psteps, chits, warm >>
pubVars == << progress_status, errCount, complCount, lastStatus >>
workVars == << provCalls, renderOps, saves, prov, rendered, lateWork >>
histVars == << cancelSeen, failure, reported >>
apiVars == << snap, snapAt, resp >>
keyVars == << seed, qa, ka, qb, kb, disk, wrote, loaded >>
storeVars == << fetcher, th >>
themeVars == << THEME, rj >>
auxVars == << apiVars, keyVars, storeVars, themeVars >>
vars == << progress_status, hitsHeap, stepsHeap, cache, f, variant, mode, jobVars,
           parVars, errCount, complCount, lastStatus, workVars, histVars, auxVars >>

\* ------------------------------------------------------------ dictionaries
EmptyDict == << >>

\* a dict holding k alone
PutOnly(d, k, v) == [x \in {k} |-> v]

\* d[k] = v on a dict
Put(d, k, v) == [x \in (DOMAIN d) \cup {k} |-> IF x = k THEN v ELSE d[x]]

\* an assignment progress_status[task_id] = payload in place of the update
MergeReplace(cur, payload) == payload

\* dict.update: the payload's keys replace, every other key stays
Merge(cur, payload) ==
    [k \in (DOMAIN cur) \cup (DOMAIN payload) |->
        IF k \in DOMAIN payload THEN payload[k] ELSE cur[k]]

\* _update_progress: read, merge and write back under progress_lock
update_progress(ps, tid, payload) ==
    LET current == IF tid \in DOMAIN ps THEN ps[tid] ELSE EmptyDict
    IN  [t \in (DOMAIN ps) \cup {tid} |->
            IF t = tid THEN Merge(current, payload) ELSE ps[t]]

\* _is_cancelled: progress_status.get(task_id, {}).get('cancelled', False)
is_cancelled(ps, tid) ==
    IF tid \in DOMAIN ps /\ "cancelled" \in DOMAIN ps[tid]
    THEN ps[tid]["cancelled"]
    ELSE FALSE

IsStatus(p, s) == "status" \in DOMAIN p /\ p["status"] = s

\* one _update_progress call of the job's task, with the history it leaves
Post(payload) ==
    /\ progress_status' = update_progress(progress_status, Tid, payload)
    /\ errCount' = errCount + (IF IsStatus(payload, "error") THEN 1 ELSE 0)
    /\ complCount' = complCount + (IF IsStatus(payload, "completed") THEN 1 ELSE 0)
    /\ lastStatus' = IF "status" \in DOMAIN payload
                     THEN [status |-> payload["status"], message |-> payload["message"]]
                     ELSE lastStatus

\* an update that records the message and leaves the status as it is
ErrorNote(msg) == [message |-> msg]

ErrorUpdate(msg) == [status |-> "error", message |-> msg]

\* an error update that carries output_files as the completed update does
ErrorUpdateWithFiles(msg, files) == [status |-> "error", message |-> msg, files |-> files]

\* the error update of create_poster_async's handlers
FailureUpdate(msg, files) == ErrorUpdate(msg)

CompletedUpdate(files) ==
    [status |-> "completed", message |-> "Poster berhasil dibuat!", files |-> files]

\* the message of the inner handler of create_poster_async
InnerMessage(e) ==
    IF e = ExcCancelled THEN MsgCancelled ELSE "Error saat membuat poster: " \o e

\* the message of the outer handler of create_poster_async
OuterMessage(e) ==
    IF e = ExcCancelled THEN MsgCancelled ELSE "Error tidak terduga: " \o e

\* ------------------------------------------------------------------ cache
\* a cache that never finds its file
cache_get_absent(c, key) == "none"

\* cache_get: "none" is no file (returns None), "bad" is a file pickle.load
\* cannot read (raises), anything else is the entry
cache_get(c, key) == c[key]

\* what pickle.dump into the opened file can do: complete, raise what
\* cache_set turns into CacheError, or raise something else
DumpOutcomes == {"ok", "cache_error", "other"}

\* ---------------------------------------------------------------- fetchers
Idle == [pc |-> "idle", hit |-> FALSE, val |-> "None", ref |-> 0, late |-> FALSE]
Returned(v) == [pc |-> "done", hit |-> FALSE, val |-> v, ref |-> 0, late |-> FALSE]
Raised == [pc |-> "raised", hit |-> FALSE, val |-> "None", ref |-> 0, late |-> FALSE]
Finished(d) == f[d].pc \in {"done", "raised"}

\* fetch_water and fetch_parks of fetch_map_data_parallel run their fetcher
\* inside try/except Exception: return None; fetch_streets does not, and
\* create_poster submits the fetchers bare
Guarded(v, d) == v = "par" /\ d # "streets"

\* what a fetcher makes of the provider's answer o: fetch_graph and
\* fetch_features turn an empty answer into None, fetch_graph_from_polygon and
\* fetch_features_from_polygon pass it on; an exception gives None in all four
ProviderYield(m, o) ==
    IF o = "raise" THEN "None"
    ELSE IF m = "point" /\ o = "empty" THEN "None"
    ELSE o

\* cache_cb of create_poster_async, first line: the dict the record holds,
\* itself, or a new one when the record has none
cache_cb_lookup(ps, heap) ==
    IF Tid \in DOMAIN ps /\ "cache_hits" \in DOMAIN ps[Tid]
    THEN [heap |-> heap, ref |-> ps[Tid]["cache_hits"]]
    ELSE [heap |-> Append(heap, EmptyDict), ref |-> Len(heap) + 1]

\* the head of a fetcher: cache_get, the hit test, and the first line of the
\* cache callback, which for create_poster_async fetches the record's dict and
\* for fetch_map_data_parallel is the round's own dict
CacheGet(d) ==
    /\ f[d].pc = "get"
    /\ LET got == cache_get(cache, d)
           r == IF variant = "job" THEN cache_cb_lookup(progress_status, hitsHeap)
                ELSE [heap |-> hitsHeap, ref |-> chits]
       IN  IF got = "bad"
           THEN /\ f' = [f EXCEPT ![d] = IF Guarded(variant, d)
                                         THEN Returned("None") ELSE Raised]
                /\ UNCHANGED hitsHeap
           ELSE /\ f' = [f EXCEPT ![d] = [@ EXCEPT !.pc = "cb", !.hit = (got # "none"),
                                                   !.val = IF got = "none" THEN "None" ELSE got,
                                                   !.ref = r.ref]]
                /\ hitsHeap' = r.heap
    /\ UNCHANGED << stepsHeap, cache, variant, mode, jobVars, parVars, pubVars,
                    workVars, histVars >>
    /\ UNCHANGED auxVars

\* a fetcher that goes to the provider whatever the cache gave
FetchAnyway(a) == [a EXCEPT !.pc = "provider", !.ref = 0]

\* a fetcher after _report_cache: on a hit it returns the cached value, on a
\* miss it goes on to the provider
AfterReport(a) ==
    IF a.hit THEN Returned(a.val) ELSE [a EXCEPT !.pc = "provider", !.ref = 0]

\* the rest of the cache callback: cache_hits[name] = bool(hit) on the dict
\* object, then _update_progress(task_id, {'cache_hits': cache_hits}); on a
\* hit the fetcher returns the cached value
CacheCb(d) ==
    /\ f[d].pc = "cb"
    /\ hitsHeap' = [hitsHeap EXCEPT ![f[d].ref] = Put(@, d, f[d].hit)]
    /\ Post([cache_hits |-> f[d].ref])
    /\ reported' = [reported EXCEPT ![d] = IF f[d].hit THEN "hit" ELSE "miss"]
    /\ f' = [f EXCEPT ![d] = AfterReport(f[d])]
    /\ UNCHANGED << stepsHeap, cache, variant, mode, jobVars, parVars, workVars,
                    cancelSeen, failure >>
    /\ UNCHANGED auxVars

\* cache_set: path.open("wb") fails and leaves the cache as it was, or it
\* creates the file and pickle.dump completes, or the dump raises and leaves
\* the file cut short. The result is the new entry and whether the exception
\* was one cache_set turns into CacheError
CacheSetOutcomes(old, v) ==
    { [entry |-> old, caught |-> TRUE] } \cup
    { [entry |-> IF o = "ok" THEN v ELSE "bad", caught |-> (o # "other")] :
        o \in DumpOutcomes }

\* after a miss: the provider call, the politeness delay and cache_set.
\* CacheError is printed and the fetcher returns its data; any other
\* exception reaches the fetcher's except Exception, which returns None
Provider(d) ==
    /\ f[d].pc = "provider"
    /\ \E o \in {"data", "empty", "raise"} :
          LET y == ProviderYield(mode, o)
          IN  /\ prov' = [prov EXCEPT ![d] = o]
              /\ IF y = "None"
                 THEN /\ f' = [f EXCEPT ![d] = Returned("None")]
                      /\ UNCHANGED cache
                 ELSE \E w \in CacheSetOutcomes(cache[d], y) :
                         /\ cache' = [cache EXCEPT ![d] = w.entry]
                         /\ f' = [f EXCEPT ![d] = IF w.caught THEN Returned(y)
                                                   ELSE Returned("None")]
    /\ provCalls' = [provCalls EXCEPT ![d] = @ + 1]
    /\ lateWork' = (lateWork \/ f[d].late)
    /\ UNCHANGED << progress_status, hitsHeap, stepsHeap, variant, mode, jobVars,
                    parVars, errCount, complCount, lastStatus, renderOps, saves,
                    rendered, histVars >>
    /\ UNCHANGED auxVars

Fetcher(d) ==
    \/ CacheGet(d)
    \/ CacheCb(d)
    \/ Provider(d)

\* ------------------------------------------------------------ api_cancel
\* a cancel that also ends the job in the record
CancelAndFail == [cancelled |-> TRUE, status |-> "error", message |-> MsgCancelled]

\* a cancel that flips the flag
CancelToggle == [cancelled |-> ~is_cancelled(progress_status, Tid)]

\* a cancel that also publishes a status of its own
CancelWithStatus == [cancelled |-> TRUE, status |-> "cancelling", message |-> ""]

\* the payload of api_cancel
CancelUpdate == [cancelled |-> TRUE]

\* api_cancel on the job's id once the record exists
Cancel ==
    /\ Tid \in DOMAIN progress_status
    /\ Post(CancelUpdate)
    /\ UNCHANGED << hitsHeap, stepsHeap, cache, f, variant, mode, jobVars, parVars,
                    workVars, histVars >>
    /\ UNCHANGED auxVars

\* ------------------------------------------------- create_poster_async
Inputs ==
    { i \in [use_coordinates : BOOLEAN, latlon : BOOLEAN, kecamatan : BOOLEAN,
             use_delineation : BOOLEAN, kota : BOOLEAN, negara : BOOLEAN,
             tema : {"known", "unknown", "custom"}, n : 1..MaxThemes,
             custom_theme : BOOLEAN, clean : BOOLEAN, canvas_ok : BOOLEAN] :
        /\ (i.tema # "known" => i.n = 1)
        /\ (i.tema # "custom" => ~i.custom_theme) }

\* the request once its fields have been read into the job's locals
NoInput ==
    [use_coordinates |-> FALSE, latlon |-> FALSE, kecamatan |-> FALSE,
     use_delineation |-> FALSE, kota |-> FALSE, negara |-> FALSE,
     tema |-> "known", n |-> 1, custom_theme |-> FALSE, clean |-> FALSE,
     canvas_ok |-> FALSE]

\* the validation of create_poster_async: "" when the request passes
ValidationError(i) ==
    IF i.tema = "unknown" THEN "Tema tidak ditemukan"
    ELSE IF i.use_coordinates /\ ~i.latlon THEN "Latitude dan longitude wajib diisi"
    ELSE IF ~i.use_coordinates /\ ~i.kecamatan /\ ~i.negara
         THEN "Isi kecamatan, atau kota + negara, atau negara saja"
    ELSE ""

\* a rule that asks for the city boundary before the subdistrict
ResolutionCityFirst(i) ==
    IF i.use_coordinates THEN "coords"
    ELSE IF i.use_delineation /\ i.kota /\ i.negara THEN "delineation"
    ELSE IF i.kecamatan THEN "subdistrict"
    ELSE IF ~i.kota /\ i.negara THEN "country"
    ELSE "geocode"

\* the if/elif chain that picks the location lookup
Resolution(i) ==
    IF i.use_coordinates THEN "coords"
    ELSE IF i.kecamatan THEN "subdistrict"
    ELSE IF i.use_delineation /\ i.kota /\ i.negara THEN "delineation"
    ELSE IF ~i.kota /\ i.negara THEN "country"
    ELSE "geocode"

BoundaryRules == {"subdistrict", "delineation", "country"}

\* the message each lookup branch publishes before its lookup
LookupMessage(rule) ==
    CASE rule = "subdistrict" -> "Mengambil batas untuk kecamatan: {kecamatan}"
      [] rule = "delineation" -> "Mengambil batas untuk {kota}, {negara}"
      [] rule = "country" -> "Mengambil batas untuk {negara}"
      [] rule = "geocode" -> "Mencari koordinat untuk {kota}, {negara}"
      [] OTHER -> ""

\* create_poster: a boundary is fetched by polygon; a point is fetched by the
\* canvas polygon unless build_canvas_boundary returns None
FetchMode(rule, canvas_ok) ==
    IF rule \in BoundaryRules \/ canvas_ok THEN "polygon" ELSE "point"

\* create_poster skips the gradient and text phases of a clean poster
NextPhase(p, c) == IF p = PhRoads /\ c THEN PhSave ELSE p + 1

\* report of create_poster wraps progress_cb in try/except Exception: pass, so
\* the RuntimeError("cancelled") of the job's report never leaves it
ReportOutcome(cancelled) == IF cancelled THEN "swallowed" ELSE "publish"

\* the update of create_poster_async's handlers for an exception e raised in
\* the theme loop: the inner handler first tests os.path.exists(output_file),
\* which raises TypeError while output_file is None and leaves the report to
\* the outer handler
HandlerUpdate(e, file, files) ==
    IF file = 0
    THEN ErrorUpdate(OuterMessage(ExcTypeError))
    ELSE FailureUpdate(InnerMessage(e), files)

\* the job thread ends: its locals are gone
Ended ==
    /\ pc' = "done"
    /\ ph' = 0
    /\ G' = "None"
    /\ water' = "None"
    /\ parks' = "None"
    /\ f' = [d \in Datasets |-> Idle]

\* an exception e raised inside the theme loop, and its handling
Raise(e, cause) ==
    /\ Post(HandlerUpdate(e, output_file, output_files))
    /\ failure' = cause
    /\ Ended

Start ==
    /\ variant = "job"
    /\ pc = "init"
    /\ hitsHeap' = Append(hitsHeap, EmptyDict)
    /\ Post([status |-> "starting", message |-> "Memulai pembuatan poster...",
             started_at |-> 1, cancelled |-> FALSE, cache_hits |-> Len(hitsHeap) + 1])
    /\ pc' = "validating"
    /\ UNCHANGED << stepsHeap, cache, f, variant, mode, input, ph, themeIdx, nThemes,
                    themeSrc, clean, output_files, output_file, G, water, parks,
                    parVars, workVars, histVars >>
    /\ UNCHANGED auxVars

Validating ==
    /\ pc = "validating"
    /\ Post([status |-> "validating", message |-> "Memvalidasi input..."])
    /\ pc' = "validate"
    /\ UNCHANGED << hitsHeap, stepsHeap, cache, f, variant, mode, input, ph, themeIdx,
                    nThemes, themeSrc, clean, output_files, output_file, G, water,
                    parks, parVars, workVars, histVars >>
    /\ UNCHANGED auxVars

Validate ==
    /\ pc = "validate"
    /\ LET err == ValidationError(input)
       IN  IF err # ""
           THEN /\ Post(ErrorUpdate(err))
                /\ failure' = IF input.tema = "unknown" THEN "theme" ELSE "params"
                /\ pc' = "done"
           ELSE /\ Post([status |-> "loading_theme", message |-> "Memuat tema..."])
                /\ pc' = "resolve"
                /\ UNCHANGED failure
    /\ UNCHANGED << hitsHeap, stepsHeap, cache, f, variant, mode, input, ph, themeIdx,
                    nThemes, themeSrc, clean, output_files, output_file, G, water,
                    parks, parVars, workVars, cancelSeen, reported >>
    /\ UNCHANGED auxVars

Resolve ==
    /\ pc = "resolve"
    /\ LET rule == Resolution(input)
       IN  /\ mode' = FetchMode(rule, input.canvas_ok)
           /\ IF rule = "coords"
              THEN /\ pc' = "fetching_data"
                   /\ UNCHANGED pubVars
              ELSE IF rule \in BoundaryRules
              THEN /\ Post([status |-> "fetching_boundary", message |-> LookupMessage(rule)])
                   /\ pc' = "lookup_boundary"
              ELSE /\ Post([status |-> "geocoding", message |-> LookupMessage(rule)])
                   /\ pc' = "lookup_geocode"
    /\ nThemes' = input.n
    /\ themeSrc' = IF input.tema = "custom"
                   THEN (IF input.custom_theme THEN "custom" ELSE "custom_none")
                   ELSE "file"
    /\ clean' = input.clean
    /\ UNCHANGED << hitsHeap, stepsHeap, cache, f, variant, input, ph, themeIdx, output_files,
                    output_file, G, water, parks, parVars, workVars, histVars >>
    /\ UNCHANGED auxVars

\* fetch_subdistrict_boundary / fetch_city_boundary: a boundary, or None
LookupBoundary ==
    /\ pc = "lookup_boundary"
    /\ \/ /\ pc' = "fetching_data"
          /\ UNCHANGED << pubVars, failure >>
       \/ /\ Post(ErrorUpdate("Tidak dapat menemukan batas"))
          /\ failure' = "lookup"
          /\ pc' = "done"
    /\ UNCHANGED << hitsHeap, stepsHeap, cache, f, variant, mode, input, ph, themeIdx,
                    nThemes, themeSrc, clean, output_files, output_file, G, water,
                    parks, parVars, workVars, cancelSeen, reported >>
    /\ UNCHANGED auxVars

\* get_coordinates: the coordinates, or ValueError, which only the outer
\* handler of create_poster_async catches
LookupGeocode ==
    /\ pc = "lookup_geocode"
    /\ \/ /\ pc' = "fetching_data"
          /\ UNCHANGED << pubVars, failure >>
       \/ /\ Post(ErrorUpdate(OuterMessage(ExcGeocode)))
          /\ failure' = "lookup"
          /\ pc' = "done"
    /\ UNCHANGED << hitsHeap, stepsHeap, cache, f, variant, mode, input, ph, themeIdx,
                    nThemes, themeSrc, clean, output_files, output_file, G, water,
                    parks, parVars, workVars, cancelSeen, reported >>
    /\ UNCHANGED auxVars

FetchingData ==
    /\ pc = "fetching_data"
    /\ Post([status |-> "fetching_data", message |-> "Mengunduh data peta..."])
    /\ themeIdx' = 1
    /\ input' = NoInput
    /\ pc' = "theme_load"
    /\ UNCHANGED << hitsHeap, stepsHeap, cache, f, variant, mode, ph, nThemes,
                    themeSrc, clean, output_files, output_file, G, water, parks,
                    parVars, workVars, histVars >>
    /\ UNCHANGED auxVars

\* the head of the theme loop: theme data, THEME, the temp file, output_files
ThemeLoad ==
    /\ pc = "theme_load"
    /\ \/ /\ themeSrc = "custom_none"
          /\ Post(ErrorUpdate("Gagal memuat tema"))
          /\ failure' = "theme_load"
          /\ Ended
          /\ UNCHANGED << output_files, output_file, prov, rendered >>
       \/ /\ themeSrc # "custom_none"
          /\ output_file' = themeIdx
          /\ output_files' = Append(output_files, themeIdx)
          /\ ph' = PhStreets
          /\ pc' = "phase"
          /\ G' = "None"
          /\ water' = "None"
          /\ parks' = "None"
          /\ f' = [d \in Datasets |-> Idle]
          /\ prov' = [d \in Datasets |-> "none"]
          /\ rendered' = FALSE
          /\ UNCHANGED << pubVars, failure >>
       \/ /\ themeSrc = "file"
          /\ Raise(ExcTheme, "theme_load")
          /\ UNCHANGED << output_files, output_file, prov, rendered >>
    /\ UNCHANGED << hitsHeap, stepsHeap, cache, variant, mode, input, themeIdx,
                    nThemes, themeSrc, clean, parVars, provCalls, renderOps, saves,
                    lateWork, cancelSeen, reported >>
    /\ UNCHANGED auxVars

\* report(status, message) of create_poster_async, called through report of
\* create_poster: _is_cancelled, then _update_progress unless it raised
Report ==
    LET c == is_cancelled(progress_status, Tid)
    IN  /\ cancelSeen' = (cancelSeen \/ c)
        /\ IF ReportOutcome(c) = "publish"
           THEN Post([status |-> Phases[ph], message |-> PhaseMessage[ph]])
           ELSE UNCHANGED pubVars

Late == cancelSeen \/ is_cancelled(progress_status, Tid)

\* report("fetching_streets"), then the street fetcher in the job thread
CallStreets ==
    /\ pc = "phase"
    /\ ph = PhStreets
    /\ Report
    /\ f' = [f EXCEPT !["streets"].pc = "get", !["streets"].late = Late]
    /\ pc' = "streets_wait"
    /\ UNCHANGED << hitsHeap, stepsHeap, cache, variant, mode, input, ph, themeIdx,
                    nThemes, themeSrc, clean, output_files, output_file, G, water,
                    parks, parVars, workVars, failure, reported >>
    /\ UNCHANGED auxVars

StreetsReturn ==
    /\ pc = "streets_wait"
    /\ Finished("streets")
    /\ IF f["streets"].pc = "raised"
       THEN Raise(ExcUnpickle, "streets_cache")
       ELSE /\ G' = f["streets"].val
            /\ ph' = PhWater
            /\ pc' = "phase"
            /\ f' = [f EXCEPT !["streets"] = Idle]
            /\ UNCHANGED << failure, water, parks, pubVars >>
    /\ UNCHANGED << hitsHeap, stepsHeap, cache, variant, mode, input, themeIdx,
                    nThemes, themeSrc, clean, output_files, output_file, parVars,
                    workVars, cancelSeen, reported >>
    /\ UNCHANGED auxVars

\* report("fetching_water"), then executor.submit of the water fetcher
SubmitWater ==
    /\ pc = "phase"
    /\ ph = PhWater
    /\ Report
    /\ f' = [f EXCEPT !["water"].pc = "get", !["water"].late = Late]
    /\ ph' = PhParks
    /\ UNCHANGED << hitsHeap, stepsHeap, cache, variant, mode, input, pc, themeIdx,
                    nThemes, themeSrc, clean, output_files, output_file, G, water,
                    parks, parVars, workVars, failure, reported >>
    /\ UNCHANGED auxVars

\* report("fetching_parks"), then executor.submit of the parks fetcher
SubmitParks ==
    /\ pc = "phase"
    /\ ph = PhParks
    /\ Report
    /\ f' = [f EXCEPT !["parks"].pc = "get", !["parks"].late = Late]
    /\ pc' = "join"
    /\ UNCHANGED << hitsHeap, stepsHeap, cache, variant, mode, input, ph, themeIdx,
                    nThemes, themeSrc, clean, output_files, output_file, G, water,
                    parks, parVars, workVars, failure, reported >>
    /\ UNCHANGED auxVars

\* water_future.result(), parks_future.result(), the executor's exit, and the
\* test of G that follows
Join ==
    /\ pc = "join"
    /\ Finished("water")
    /\ Finished("parks")
    /\ IF f["water"].pc = "raised" \/ f["parks"].pc = "raised"
       THEN Raise(ExcUnpickle, IF G = "None" THEN "features_cache_no_graph"
                                ELSE "features_cache")
       ELSE IF G = "None"
       THEN Raise(ExcNoGraph, "fetch")
       ELSE /\ water' = f["water"].val
            /\ parks' = f["parks"].val
            /\ ph' = PhSetup
            /\ pc' = "phase"
            /\ f' = [d \in Datasets |-> Idle]
            /\ UNCHANGED << failure, G, pubVars >>
    /\ prov' = [prov EXCEPT !["water"] = "none", !["parks"] = "none"]
    /\ UNCHANGED << hitsHeap, stepsHeap, cache, variant, mode, input, themeIdx,
                    nThemes, themeSrc, clean, output_files, output_file, parVars,
                    provCalls, renderOps, saves, rendered, lateWork, cancelSeen,
                    reported >>
    /\ UNCHANGED auxVars

\* one render phase of create_poster: its report, then its drawing, which may
\* raise; render_save is plt.savefig; after the last phase the theme loop
\* goes on
Render ==
    /\ pc = "phase"
    /\ ph >= PhSetup
    /\ renderOps' = renderOps + 1
    /\ rendered' = TRUE
    /\ lateWork' = (lateWork \/ Late)
    /\ cancelSeen' = Late
    /\ \/ /\ Raise(ExcRender, "render")
          /\ UNCHANGED << themeIdx, saves >>
       \/ /\ ph < PhSave
          /\ Report
          /\ ph' = NextPhase(ph, clean)
          /\ UNCHANGED << failure, themeIdx, saves, pc, G, water, parks, f >>
       \/ /\ ph = PhSave
          /\ Report
          /\ saves' = saves + 1
          /\ IF themeIdx < nThemes
             THEN themeIdx' = themeIdx + 1 /\ pc' = "theme_load"
             ELSE pc' = "complete" /\ UNCHANGED themeIdx
          /\ UNCHANGED << failure, ph, G, water, parks, f >>
    /\ UNCHANGED << hitsHeap, stepsHeap, cache, variant, mode, input, nThemes,
                    themeSrc, clean, output_files, output_file, parVars, provCalls,
                    prov, reported >>
    /\ UNCHANGED auxVars

Complete ==
    /\ pc = "complete"
    /\ Post(CompletedUpdate(output_files))
    /\ Ended
    /\ UNCHANGED << hitsHeap, stepsHeap, cache, variant, mode, input, themeIdx,
                    nThemes, themeSrc, clean, output_files, output_file, parVars,
                    workVars, histVars >>
    /\ UNCHANGED auxVars

\* ------------------------------------------------ fetch_map_data_parallel
PhaseOf == [streets |-> PhStreets, water |-> PhWater, parks |-> PhParks]

\* a future that counts as resolved as soon as it is submitted
FutureSubmitted(d) == f[d].pc # "idle"

\* future.result() and the executor's exit return once the future's fetcher
\* has returned or raised
FutureResolved(d) == Finished(d)

\* the dicts of a round and the three executor.submit calls
CSubmit ==
    /\ variant = "par"
    /\ cpc \in {"start", "returned", "failed"}
    /\ round < MaxRounds
    /\ round' = round + 1
    /\ stepsHeap' = Append(stepsHeap, [k \in {Phases[PhaseOf[d]] : d \in Datasets} |-> 0])
    /\ psteps' = Len(stepsHeap) + 1
    /\ hitsHeap' = Append(hitsHeap, [d \in Datasets |-> FALSE])
    /\ chits' = Len(hitsHeap) + 1
    /\ results' = [d \in Datasets |-> "None"]
    /\ f' = [d \in Datasets |-> [Idle EXCEPT !.pc = "w_upd"]]
    /\ prov' = [d \in Datasets |-> "none"]
    /\ cpc' = "res_streets"
    /\ reported' = [d \in Datasets |-> "none"]
    /\ warm' = (round >= 1 /\ \A d \in Datasets : results[d] = "data" /\ cache[d] = "data")
    /\ UNCHANGED << progress_status, cache, variant, mode, jobVars, errCount,
                    complCount, lastStatus, provCalls, renderOps, saves, rendered,
                    lateWork, cancelSeen, failure >>
    /\ UNCHANGED auxVars

\* fetch_streets / fetch_water / fetch_parks, first part: the step of the
\* dataset and the status update carrying the round's progress_steps
WUpd(d) ==
    /\ f[d].pc = "w_upd"
    /\ stepsHeap' = [stepsHeap EXCEPT ![psteps] = Put(@, Phases[PhaseOf[d]], StepStarted)]
    /\ Post([status |-> Phases[PhaseOf[d]], message |-> PhaseMessage[PhaseOf[d]],
             details |-> psteps])
    /\ f' = [f EXCEPT ![d].pc = "w_chk"]
    /\ UNCHANGED << hitsHeap, cache, variant, mode, jobVars, parVars, workVars,
                    histVars >>
    /\ UNCHANGED auxVars

\* a wrapper that calls its fetcher whatever the flag says
CheckIgnored(a, c) == [a EXCEPT !.pc = "get"]

\* if _is_cancelled(task_id): return None, else the call of the fetcher
CheckOutcome(a, c) == IF c THEN Returned("None") ELSE [a EXCEPT !.pc = "get"]

\* second part: a cancelled task returns None without calling its fetcher
WChk(d) ==
    /\ f[d].pc = "w_chk"
    /\ f' = [f EXCEPT ![d] = CheckOutcome(@, is_cancelled(progress_status, Tid))]
    /\ cancelSeen' = (cancelSeen \/ is_cancelled(progress_status, Tid))
    /\ UNCHANGED << hitsHeap, stepsHeap, cache, variant, mode, jobVars, parVars,
                    pubVars, workVars, failure, reported >>
    /\ UNCHANGED auxVars

\* results[key] = future.result(): the value, or the fetcher's exception,
\* which leaves the with block
CResult(d, here, next) ==
    /\ cpc = here
    /\ FutureResolved(d)
    /\ IF f[d].pc = "raised"
       THEN cpc' = "unwind" /\ UNCHANGED results
       ELSE cpc' = next /\ results' = [results EXCEPT ![d] = f[d].val]
    /\ UNCHANGED << progress_status, hitsHeap, stepsHeap, cache, f, variant, mode,
                    jobVars, round, psteps, chits, warm, errCount, complCount,
                    lastStatus, workVars, histVars >>
    /\ UNCHANGED auxVars

\* the exit of the with block: shutdown(wait=True), then the exception in
\* flight, if any, leaves fetch_map_data_parallel
CExit ==
    /\ cpc \in {"exit", "unwind"}
    /\ \A d \in Datasets : FutureResolved(d)
    /\ cpc' = IF cpc = "exit" THEN "mark" ELSE "failed"
    /\ UNCHANGED << progress_status, hitsHeap, stepsHeap, cache, f, variant, mode,
                    jobVars, round, results, psteps, chits, warm, errCount,
                    complCount, lastStatus, workVars, histVars >>
    /\ UNCHANGED auxVars

\* every step set to 100, the fetching_data update, and the test of
\* results['G']
CMark ==
    /\ cpc = "mark"
    /\ stepsHeap' = [stepsHeap EXCEPT ![psteps] = [k \in DOMAIN @ |-> StepComplete]]
    /\ Post([status |-> "fetching_data", message |-> "Semua data berhasil diambil",
             details |-> psteps])
    /\ cpc' = IF results["streets"] = "None" THEN "failed" ELSE "returned"
    /\ UNCHANGED << hitsHeap, cache, f, variant, mode, jobVars, round, results,
                    psteps, chits, warm, workVars, histVars >>
    /\ UNCHANGED auxVars

Wrapper(d) ==
    \/ WUpd(d)
    \/ WChk(d)

\* ----------------------------------------- api_progress and api_cancel
\* the ids a client may ask about: the job's, and one never issued
UnknownTid == "t0"
Tids == {Tid, UnknownTid}

\* a status dict with the dicts it references, as jsonify walks it
Deep(rec) ==
    [k \in DOMAIN rec |->
        IF k = "cache_hits" THEN hitsHeap[rec[k]]
        ELSE IF k = "details" THEN stepsHeap[rec[k]]
        ELSE rec[k]]

\* api_progress on a completed status: file is popped, and files keeps only
\* index, theme and format of each entry
Redact(body) ==
    IF IsStatus(body, "completed")
    THEN [k \in (DOMAIN body) \ {"file"} |->
            IF k = "files"
            THEN [i \in DOMAIN body[k] |-> [index |-> i - 1, theme |-> body[k][i]]]
            ELSE body[k]]
    ELSE body

\* the percent api_progress gives a status that is not in its table and has
\* no percent of its own: None, written -1
PercentNone == -1

status_percent_map ==
    [starting |-> 5, validating |-> 10, loading_theme |-> 15, fetching_data |-> 20,
     fetching_boundary |-> 25, geocoding |-> 25, fetching_streets |-> 35,
     fetching_water |-> 45, fetching_parks |-> 55, render_setup |-> 60,
     render_layers_water |-> 65, render_layers_parks |-> 70, render_boundary |-> 75,
     render_roads |-> 85, render_gradients |-> 90, render_text |-> 95,
     render_save |-> 97, completed |-> 100]

\* status_percent_map.get(status.get('status'), status.get('percent'))
Percent(body) ==
    IF "status" \in DOMAIN body /\ body["status"] \in DOMAIN status_percent_map
    THEN status_percent_map[body["status"]]
    ELSE IF "percent" \in DOMAIN body THEN body["percent"]
    ELSE PercentNone

\* status['percent'] = ... on the copy
WithPercent(body) == Put(body, "percent", Percent(body))

\* api_progress, first part: the membership test and progress_status[id].copy(),
\* or the not_found response
ApiProgressCopy(t) ==
    /\ snap = EmptyDict
    /\ IF t \in DOMAIN progress_status
       THEN /\ snap' = progress_status[t]
            /\ snapAt' = Deep(progress_status[t])
            /\ UNCHANGED resp
       ELSE /\ resp' = [op |-> "progress", id |-> t, code |-> 200,
                        body |-> [status |-> "not_found"]]
            /\ UNCHANGED << snap, snapAt >>
    /\ UNCHANGED << progress_status, hitsHeap, stepsHeap, cache, f, variant, mode,
                    jobVars, parVars, errCount, complCount, lastStatus, workVars,
                    histVars, keyVars, storeVars,
                    themeVars >>

\* api_progress, second part: jsonify(status) of the copy
ApiProgressRespond ==
    /\ snap # EmptyDict
    /\ resp' = [op |-> "progress", id |-> Tid, code |-> 200, body |-> Redact(WithPercent(Deep(snap)))]
    /\ snap' = EmptyDict
    /\ UNCHANGED << progress_status, hitsHeap, stepsHeap, cache, f, variant, mode,
                    jobVars, parVars, errCount, complCount, lastStatus, workVars,
                    histVars, snapAt, keyVars, storeVars,
                    themeVars >>

\* api_cancel with its response
ApiCancel(t) ==
    /\ IF t \in DOMAIN progress_status
       THEN /\ Post(CancelUpdate)
            /\ resp' = [op |-> "cancel", id |-> t, code |-> 200,
                        body |-> [status |-> "cancelling"]]
       ELSE /\ resp' = [op |-> "cancel", id |-> t, code |-> 404,
                        body |-> [status |-> "not_found"]]
            /\ UNCHANGED pubVars
    /\ UNCHANGED << hitsHeap, stepsHeap, cache, f, variant, mode, jobVars, parVars,
                    workVars, histVars, snap, snapAt, keyVars, storeVars,
                    themeVars >>

\* max(0, min(index, len(files) - 1))
Clamp(index, n) ==
    LET m == IF index < n - 1 THEN index ELSE n - 1
    IN  IF m < 0 THEN 0 ELSE m

\* api_download and api_preview: the file of a completed task at the index
\* asked for, or 404; the record is only read
ApiDownload(t) ==
    /\ \E index \in (0 - 1)..MaxThemes :
          resp' = IF /\ t \in DOMAIN progress_status
                     /\ IsStatus(progress_status[t], "completed")
                     /\ "files" \in DOMAIN progress_status[t]
                  THEN LET files == progress_status[t]["files"]
                       IN  [op |-> "download", id |-> t, code |-> 200,
                            body |-> [file |-> files[Clamp(index, Len(files)) + 1]]]
                  ELSE [op |-> "download", id |-> t, code |-> 404,
                        body |-> [error |-> "File not found"]]
    /\ UNCHANGED << progress_status, hitsHeap, stepsHeap, cache, f, variant, mode,
                    jobVars, parVars, errCount, complCount, lastStatus, workVars,
                    histVars, snap, snapAt, keyVars, storeVars,
                    themeVars >>

\* api_create_poster: the id, the thread started, the response
Submit ==
    /\ variant = "job"
    /\ pc = "new"
    /\ pc' = "init"
    /\ resp' = [op |-> "submit", id |-> Tid, code |-> 200,
                body |-> [task_id |-> Tid, status |-> "started"]]
    /\ UNCHANGED << progress_status, hitsHeap, stepsHeap, cache, f, variant, mode,
                    input, ph, themeIdx, nThemes, themeSrc, clean, output_files,
                    output_file, G, water, parks, parVars, errCount, complCount,
                    lastStatus, workVars, histVars, snap, snapAt, keyVars, storeVars,
                    themeVars >>

\* the ids api_create_poster has returned
Issued == IF variant = "job" /\ pc # "new" THEN {Tid} ELSE {}

\* the first round of fetch_map_data_parallel
SingleRound ==
    /\ round = 0
    /\ CSubmit

\* -------------------------------------------------- cache keys and files
\* the salts a process may draw for its string hash when it starts
Seeds == {1, 2}

\* texts are sequences of characters
Lower(t) == [i \in DOMAIN t |-> IF t[i] = "A" THEN "a" ELSE t[i]]

\* name.replace(' ', '_').replace(',', '')
Slug(t) ==
    LET IsKept(c) == c # ","
    IN  SelectSeq([i \in DOMAIN t |-> IF t[i] = " " THEN "_" ELSE t[i]], IsKept)

RECURSIVE Join_(_, _)
\* sep.join(parts)
Join_(parts, sep) ==
    IF parts = << >> THEN << >>
    ELSE IF Len(parts) = 1 THEN << parts[1] >>
    ELSE << parts[1] >> \o sep \o Join_(Tail(parts), sep)

\* "_".join(tags.keys()): the keys of the tag dict, in order, without values
TagStr(tags) == Join_([i \in DOMAIN tags |-> tags[i].key], << "_" >>)

\* hash(str(geometry)): Python salts the hash of a str with the seed of the
\* process
StrHash(s, text) == << "hash", ToString(s), text >>

\* the key each fetcher builds for its query
CacheKey(s, q) ==
    CASE q.kind = "coords" ->
            << "coords", "_" >> \o Lower(q.city) \o << "_" >> \o Lower(q.country)
      [] q.kind = "graph" ->
            << "graph", "_", ToString(q.lat), "_", ToString(q.lon), "_",
               ToString(q.dist), "_", q.net >>
      [] q.kind = "features" ->
            << q.name, "_", ToString(q.lat), "_", ToString(q.lon), "_",
               ToString(q.dist), "_" >> \o TagStr(q.tags)
      [] q.kind = "subdistrict" -> << "boundary", "_" >> \o Slug(q.name)
      [] q.kind = "city" -> << "boundary", "_", "city", "_" >> \o Slug(q.name)
      [] q.kind = "graph_polygon" ->
            << "graph", "_", "polygon", "_" >> \o StrHash(s, q.geom) \o << "_", q.net >>
      [] q.kind = "features_polygon" ->
            << q.name, "_", "polygon", "_" >> \o StrHash(s, q.geom) \o << "_" >>
               \o TagStr(q.tags)

\* cache_file: md5 of the key, taken as one-to-one, and the suffix
cache_file(key) == [md5 |-> key, suffix |-> ".pkl"]

TagsWater == << [key |-> "natural", val |-> "water"] >>
TagsWood == << [key |-> "natural", val |-> "wood"] >>
TagsParks == << [key |-> "leisure", val |-> "park"], [key |-> "landuse", val |-> "grass"] >>

\* the query as the provider sees it: Nominatim matches names without case
Canon(q) ==
    IF q.kind = "coords"
    THEN [q EXCEPT !.city = Lower(q.city), !.country = Lower(q.country)]
    ELSE q
SameQuery(a, b) == a.kind = b.kind /\ Canon(a) = Canon(b)

\* the queries of the model
Queries ==
    { [kind |-> "coords", city |-> c[1], country |-> c[2]] :
        c \in { << << "a" >>, << "b" >> >>,
                << << "A" >>, << "b" >> >>,
                << << "a" >>, << "c" >> >> } }
    \cup { [kind |-> "graph", lat |-> 1, lon |-> 2, dist |-> d, net |-> n] :
             << d, n >> \in { << 5, "drive" >>, << 6, "drive" >>, << 5, "all" >> } }
    \cup { [kind |-> "features", name |-> x[1], lat |-> 1, lon |-> 2, dist |-> 5,
            tags |-> x[2]] :
             x \in { << "water", TagsWater >>, << "water", TagsWood >>,
                     << "parks", TagsParks >> } }
    \cup { [kind |-> "subdistrict", name |-> n] :
             n \in { << "a", " ", "b" >>, << "a", ",", "b" >>, << "b" >> } }
    \cup { [kind |-> "city", name |-> << "a", " ", "b" >>] }
    \cup { [kind |-> "graph_polygon", geom |-> "g1", net |-> "drive"] }
    \cup { [kind |-> "features_polygon", name |-> "water", geom |-> "g1", tags |-> t] :
             t \in {TagsWater, TagsWood} }

\* what the cache stores
Payloads == {"graph", "frame"}

\* pickle.dump and pickle.load on a payload the fetchers store
PickleNothing(v) == [pickled |-> "None", whole |-> TRUE]
Pickle(v) == [pickled |-> v, whole |-> TRUE]
Truncated == [pickled |-> "None", whole |-> FALSE]
Unpickle(c) == IF c.whole THEN c.pickled ELSE "raised"

\* path.open("wb") fails and leaves the file as it was, or truncates it and
\* pickle.dump completes or fails part-way
WriteOutcomes == {"ok", "no_open", "partial"}

\* cache_get on the directory: None without a file, else pickle.load
CacheRead(d, file) == IF file \in DOMAIN d THEN Unpickle(d[file]) ELSE "None"

\* cache_set for the first query: the key, the file, and the write
CacheSetA ==
    /\ seed # 0
    /\ \E v \in Payloads, o \in WriteOutcomes :
          LET file == cache_file(CacheKey(seed, qa))
          IN  /\ ka' = [key |-> CacheKey(seed, qa), file |-> file, run |-> seed]
              /\ disk' = IF o = "no_open" THEN disk
                         ELSE Put(disk, file, IF o = "ok" THEN Pickle(v) ELSE Truncated)
              /\ wrote' = [file |-> file, val |-> v, ok |-> (o = "ok"),
                            called |-> wrote.called \cup {file}]
    /\ UNCHANGED << progress_status, hitsHeap, stepsHeap, cache, f, variant, mode,
                    jobVars, parVars, pubVars, workVars, histVars, apiVars, seed, qa,
                    qb, kb, loaded, storeVars,
                    themeVars >>

\* cache_get for the second query: the key, the file, and the read
CacheGetB ==
    /\ seed # 0
    /\ LET file == cache_file(CacheKey(seed, qb))
       IN  /\ kb' = [key |-> CacheKey(seed, qb), file |-> file, run |-> seed]
           /\ loaded' = [val |-> CacheRead(disk, file), file |-> file, since |-> wrote]
    /\ UNCHANGED << progress_status, hitsHeap, stepsHeap, cache, f, variant, mode,
                    jobVars, parVars, pubVars, workVars, histVars, apiVars, seed, qa,
                    ka, qb, disk, wrote, storeVars,
                    themeVars >>

\* the process ends and a new one starts on the same cache directory
Restart ==
    /\ seed # 0
    /\ \E s \in Seeds : seed' = s
    /\ UNCHANGED << progress_status, hitsHeap, stepsHeap, cache, f, variant, mode,
                    jobVars, parVars, pubVars, workVars, histVars, apiVars, qa, ka,
                    qb, kb, disk, wrote, loaded, storeVars,
                    themeVars >>

\* ------------------------------------------- fetchers on one cache file
Fetchers ==
    {"get_coordinates", "fetch_graph", "fetch_features", "fetch_subdistrict_boundary",
     "fetch_city_boundary", "fetch_graph_from_polygon", "fetch_features_from_polygon"}

Threads == {1, 2}

\* the file of the key both threads compute
KeyFile == "k"

\* what the provider may answer with at different times
ProviderData == {"d1", "d2"}

\* get_coordinates has no try around the provider call and cache_set
Bare(fn) == fn = "get_coordinates"

\* the fetchers that turn an empty answer into None
HasEmptyTest(fn) ==
    fn \in {"fetch_graph", "fetch_features", "fetch_subdistrict_boundary",
            "fetch_city_boundary"}

\* `if cached:` in get_coordinates, `if cached is not None:` elsewhere
IsHit(fn, got) ==
    IF fn = "get_coordinates" THEN got \notin {"None", "empty"} ELSE got # "None"

ThIdle == [pc |-> "idle", val |-> "None", wout |-> "none", ret |-> "pending"]

\* an exception the fetcher has no handler for leaves it; one inside its try
\* makes it return None
Escapes(fn) == IF Bare(fn) THEN "raised" ELSE "None"

\* a fetcher that gives up on every failed write
ReturnNothing(fn, v, o) == IF o = "ok" THEN v ELSE Escapes(fn)

\* what the fetcher returns after cache_set ended with o: CacheError is
\* caught and printed, anything else is an exception like any other
ReturnAfterWrite(fn, v, o) == IF o = "other" THEN Escapes(fn) ELSE v

SCall(t) ==
    /\ th[t].pc \in {"idle", "done"}
    /\ th' = [th EXCEPT ![t] = [ThIdle EXCEPT !.pc = "get"]]
    /\ UNCHANGED disk

\* cache_get and the hit test
SGet(t) ==
    /\ th[t].pc = "get"
    /\ LET got == CacheRead(disk, KeyFile)
       IN  th' = [th EXCEPT ![t] =
                     IF got = "raised" THEN [@ EXCEPT !.pc = "done", !.ret = "raised"]
                     ELSE IF IsHit(fetcher, got) THEN [@ EXCEPT !.pc = "done", !.ret = got]
                     ELSE [@ EXCEPT !.pc = "provider"]]
    /\ UNCHANGED disk

\* the provider call and what the fetcher makes of the answer
SProvider(t) ==
    /\ th[t].pc = "provider"
    /\ \E o \in ProviderData \cup {"empty", "raise"} :
          th' = [th EXCEPT ![t] =
                    IF o = "raise" THEN [@ EXCEPT !.pc = "done", !.ret = Escapes(fetcher)]
                    ELSE IF o = "empty" /\ Bare(fetcher)
                    THEN [@ EXCEPT !.pc = "done", !.ret = "raised"]
                    ELSE IF o = "empty" /\ HasEmptyTest(fetcher)
                    THEN [@ EXCEPT !.pc = "done", !.ret = "None"]
                    ELSE [@ EXCEPT !.pc = "open", !.val = o]]
    /\ UNCHANGED disk

\* cache_set, path.open("wb"): OSError, or the file is there and empty
SOpen(t) ==
    /\ th[t].pc = "open"
    /\ \/ /\ th' = [th EXCEPT ![t] =
                      [@ EXCEPT !.pc = "done", !.wout = "cache_error",
                                !.ret = ReturnAfterWrite(fetcher, th[t].val, "cache_error")]]
          /\ UNCHANGED disk
       \/ /\ th' = [th EXCEPT ![t].pc = "dump"]
          /\ disk' = Put(disk, KeyFile, Truncated)

\* cache_set, pickle.dump and the close of the file
SDump(t) ==
    /\ th[t].pc = "dump"
    /\ \E o \in DumpOutcomes :
          /\ th' = [th EXCEPT ![t] =
                      [@ EXCEPT !.pc = "done", !.wout = o,
                                !.ret = ReturnAfterWrite(fetcher, th[t].val, o)]]
          /\ disk' = Put(disk, KeyFile, IF o = "ok" THEN Pickle(th[t].val) ELSE Truncated)

Store(t) ==
    /\ fetcher # "none"
    /\ \/ SCall(t)
       \/ SGet(t)
       \/ SProvider(t)
       \/ SOpen(t)
       \/ SDump(t)
    /\ UNCHANGED << progress_status, hitsHeap, stepsHeap, cache, f, variant, mode,
                    jobVars, parVars, pubVars, workVars, histVars, apiVars, seed, qa,
                    ka, qb, kb, wrote, loaded, fetcher, themeVars >>

\* ------------------------------------------- job threads and the one THEME
Jobs == {1, 2}

ThemeNames == {"noir", "sunset"}

\* data['themes'] of a job
ThemeLists == UNION {[1..n -> ThemeNames] : n \in 1..MaxThemes}

RjOff == [pc |-> "off", themes |-> << >>, i |-> 1, files |-> << >>]

\* a render step reads the module's THEME
ReadTheme(j, g) == g

\* the head of the theme loop: load_theme, THEME = theme_data, the file
\* appended to output_files; after the last theme the completed update
TSet(j) ==
    /\ rj[j].pc = "loop"
    /\ IF rj[j].i > Len(rj[j].themes)
       THEN /\ rj' = [rj EXCEPT ![j].pc = "completed"]
            /\ UNCHANGED THEME
       ELSE LET theme_name == rj[j].themes[rj[j].i]
            IN  /\ THEME' = theme_name
                /\ rj' = [rj EXCEPT ![j].pc = "fetch",
                                    ![j].files = Append(@, [theme |-> theme_name,
                                                            used |-> {}])]

\* create_poster up to the canvas: the data is there, or the job ends in error
TFetch(j) ==
    /\ rj[j].pc = "fetch"
    /\ \E ok \in BOOLEAN :
          rj' = [rj EXCEPT ![j].pc = IF ok THEN "setup" ELSE "error"]
    /\ UNCHANGED THEME

\* the canvas, the roads and the save each read THEME
TRender(j) ==
    /\ rj[j].pc \in {"setup", "roads", "save"}
    /\ LET k == Len(rj[j].files)
           u == ReadTheme(j, THEME)
       IN  rj' = [rj EXCEPT ![j].files[k].used = @ \cup {u},
                            ![j].pc = CASE @ = "setup" -> "roads"
                                        [] @ = "roads" -> "save"
                                        [] @ = "save" -> "loop",
                            ![j].i = IF rj[j].pc = "save" THEN @ + 1 ELSE @]
    /\ UNCHANGED THEME

Themes(j) ==
    /\ rj[j].pc # "off"
    /\ \/ TSet(j)
       \/ TFetch(j)
       \/ TRender(j)
    /\ UNCHANGED << progress_status, hitsHeap, stepsHeap, cache, f, variant, mode,
                    jobVars, parVars, pubVars, workVars, histVars, apiVars, keyVars,
                    storeVars >>

\* ------------------------------------------------------------------ Spec
InitShared ==
    /\ progress_status = EmptyDict
    /\ hitsHeap = << >>
    /\ stepsHeap = << >>
    /\ cache = [d \in Datasets |-> "none"]
    /\ f = [d \in Datasets |-> Idle]
    /\ ph = 0
    /\ themeIdx = 0
    /\ nThemes = 0
    /\ themeSrc = "file"
    /\ clean = FALSE
    /\ output_files = << >>
    /\ output_file = 0
    /\ G = "None"
    /\ water = "None"
    /\ parks = "None"
    /\ round = 0
    /\ results = [d \in Datasets |-> "None"]
    /\ psteps = 0
    /\ chits = 0
    /\ cancelSeen = FALSE
    /\ provCalls = [d \in Datasets |-> 0]
    /\ renderOps = 0
    /\ saves = 0
    /\ errCount = 0
    /\ complCount = 0
    /\ failure = "none"
    /\ prov = [d \in Datasets |-> "none"]
    /\ rendered = FALSE
    /\ lateWork = FALSE
    /\ lastStatus = [status |-> "none", message |-> ""]
    /\ reported = [d \in Datasets |-> "none"]
    /\ warm = FALSE

NoResponse == [op |-> "none", id |-> "", code |-> 0, body |-> EmptyDict]
NoQuery == [kind |-> "none"]
NoKey == [key |-> << >>, file |-> << >>, run |-> 0]
NoWrite == [file |-> << >>, val |-> "None", ok |-> FALSE, called |-> {}]
NoRead == [val |-> "None", file |-> << >>, since |-> NoWrite]

\* no request is being served
InitApi ==
    /\ snap = EmptyDict
    /\ snapAt = EmptyDict
    /\ resp = NoResponse

\* no job is in its theme loop
InitThemesOff ==
    /\ THEME = "None"
    /\ rj = [j \in Jobs |-> RjOff]

\* no fetcher is being called
InitStoreOff ==
    /\ fetcher = "none"
    /\ th = [t \in Threads |-> ThIdle]

\* no query has been made
InitKeys ==
    /\ seed = 0
    /\ qa = NoQuery
    /\ ka = NoKey
    /\ qb = NoQuery
    /\ kb = NoKey
    /\ disk = EmptyDict
    /\ wrote = NoWrite
    /\ loaded = NoRead

Init ==
    /\ InitShared
    /\ InitApi
    /\ InitStoreOff
    /\ InitThemesOff
    /\ InitKeys
    /\ variant = "job"
    /\ mode = "polygon"
    /\ input \in Inputs
    /\ pc = "init"
    /\ cpc = "off"

Next ==
    \/ Start
    \/ Validating
    \/ Validate
    \/ Resolve
    \/ LookupBoundary
    \/ LookupGeocode
    \/ FetchingData
    \/ ThemeLoad
    \/ CallStreets
    \/ StreetsReturn
    \/ SubmitWater
    \/ SubmitParks
    \/ Join
    \/ Render
    \/ Complete
    \/ Cancel
    \/ \E d \in Datasets : Fetcher(d)

Spec == Init /\ [][Next]_vars

InitPar ==
    /\ InitShared
    /\ InitApi
    /\ InitStoreOff
    /\ InitThemesOff
    /\ InitKeys
    /\ variant = "par"
    /\ mode \in {"polygon", "point"}
    /\ input = NoInput
    /\ pc = "off"
    /\ cpc = "start"

NextPar ==
    \/ CSubmit
    \/ \E d \in Datasets : Wrapper(d)
    \/ \E d \in Datasets : Fetcher(d)
    \/ CResult("streets", "res_streets", "res_water")
    \/ CResult("water", "res_water", "res_parks")
    \/ CResult("parks", "res_parks", "exit")
    \/ CExit
    \/ CMark
    \/ Cancel

SpecPar == InitPar /\ [][NextPar]_vars

\* the start of a round of fetch_map_data_parallel, polled by api_progress
NextPoll ==
    \/ SingleRound
    \/ \E d \in Datasets : Wrapper(d)
    \/ ApiProgressCopy(Tid)
    \/ ApiProgressRespond

SpecPoll == InitPar /\ [][NextPoll]_vars

\* a request not yet submitted
InitNew ==
    /\ InitShared
    /\ InitApi
    /\ InitStoreOff
    /\ InitThemesOff
    /\ InitKeys
    /\ variant = "job"
    /\ mode = "polygon"
    /\ pc = "new"
    /\ cpc = "off"

\* api_create_poster and the job up to its validation, with clients polling
\* and cancelling
InitSubmit ==
    /\ InitNew
    /\ input \in Inputs

NextSubmit ==
    \/ Submit
    \/ Start
    \/ Validating
    \/ Validate
    \/ \E t \in Tids : ApiProgressCopy(t)
    \/ ApiProgressRespond
    \/ \E t \in Tids : ApiCancel(t)

SpecSubmit == InitSubmit /\ [][NextSubmit]_vars

\* a job of one theme from api_create_poster to its end, with clients
\* cancelling
InitCancel ==
    /\ InitNew
    /\ input \in {i \in Inputs : i.n = 1 /\ i.clean /\ i.canvas_ok}

NextCancel ==
    \/ Submit
    \/ Start
    \/ Validating
    \/ Validate
    \/ Resolve
    \/ LookupBoundary
    \/ LookupGeocode
    \/ FetchingData
    \/ ThemeLoad
    \/ CallStreets
    \/ StreetsReturn
    \/ SubmitWater
    \/ SubmitParks
    \/ Join
    \/ Render
    \/ Complete
    \/ \E d \in Datasets : Fetcher(d)
    \/ \E t \in Tids : ApiCancel(t)

SpecCancel == InitCancel /\ [][NextCancel]_vars

\* two queries against the cache directory, over process restarts
InitCache ==
    /\ InitShared
    /\ InitApi
    /\ InitStoreOff
    /\ InitThemesOff
    /\ variant = "cache"
    /\ mode = "point"
    /\ input = NoInput
    /\ pc = "off"
    /\ cpc = "off"
    /\ seed \in Seeds
    /\ qa \in Queries
    /\ qb \in Queries
    /\ ka = NoKey
    /\ kb = NoKey
    /\ disk = EmptyDict
    /\ wrote = NoWrite
    /\ loaded = NoRead

NextCache ==
    \/ CacheSetA
    \/ CacheGetB
    \/ Restart

SpecCache == InitCache /\ [][NextCache]_vars

\* two threads calling one fetcher with the same arguments
InitStore ==
    /\ InitShared
    /\ InitApi
    /\ InitKeys
    /\ variant = "store"
    /\ mode = "point"
    /\ input = NoInput
    /\ pc = "off"
    /\ cpc = "off"
    /\ fetcher \in Fetchers
    /\ th = [t \in Threads |-> ThIdle]
    /\ InitThemesOff

NextStore == \E t \in Threads : Store(t)

SpecStore == InitStore /\ [][NextStore]_vars

\* a job up to its fetching_data update, polled by its client
NextProgress ==
    \/ Submit
    \/ Start
    \/ Validating
    \/ Validate
    \/ Resolve
    \/ LookupBoundary
    \/ LookupGeocode
    \/ FetchingData
    \/ ApiProgressCopy(Tid)
    \/ ApiProgressRespond

SpecProgress == InitSubmit /\ [][NextProgress]_vars

\* the steps of the job thread
JobStep ==
    \/ Start
    \/ Validating
    \/ Validate
    \/ Resolve
    \/ LookupBoundary
    \/ LookupGeocode
    \/ FetchingData
    \/ ThemeLoad
    \/ CallStreets
    \/ StreetsReturn
    \/ SubmitWater
    \/ SubmitParks
    \/ Join
    \/ Render
    \/ Complete

\* the job thread and the executor's workers keep running: a thread that can
\* take a step takes one, and every provider and render call ends
SpecLive ==
    /\ InitCancel
    /\ [][NextCancel]_vars
    /\ WF_vars(JobStep)
    /\ \A d \in Datasets : WF_vars(Fetcher(d))

\* a job of one theme with clients cancelling at any time, and polling and
\* downloading once the job thread has ended
AfterEnd ==
    /\ pc = "done"
    /\ \/ ApiProgressCopy(Tid)
       \/ ApiProgressRespond
       \/ \E t \in Tids : ApiDownload(t)

NextAfter ==
    \/ NextCancel
    \/ AfterEnd

SpecAfter == InitCancel /\ [][NextAfter]_vars

\* two jobs started one after the other, each with its own list of themes
InitThemes ==
    /\ InitShared
    /\ InitApi
    /\ InitKeys
    /\ InitStoreOff
    /\ variant = "themes"
    /\ mode = "point"
    /\ input = NoInput
    /\ pc = "off"
    /\ cpc = "off"
    /\ THEME = "None"
    /\ rj \in [Jobs -> {[RjOff EXCEPT !.pc = "loop", !.themes = l] : l \in ThemeLists}]

NextThemes == \E j \in Jobs : Themes(j)

SpecThemes == InitThemes /\ [][NextThemes]_vars

\* ------------------------------------------------------------ properties
\* the status record of the task, as api_progress reads it
HasRec == Tid \in DOMAIN progress_status
Rec == progress_status[Tid]
HasKey(k) == HasRec /\ k \in DOMAIN Rec
EndedWith(msg) == HasKey("status") /\ Rec["status"] = "error" /\ Rec["message"] = msg

\* C1: once a checkpoint of the job has seen cancelled = True, the job starts
\* no provider fetch, render phase or artifact write any more
C1_NoWorkAfterCancelSeen == ~lateWork

\* C2: a job one of whose checkpoints saw cancelled = True ends with status
\* error and the message 'Dibatalkan oleh pengguna'
C2_CancelSeenEndsCancelled ==
    (pc = "done" /\ cancelSeen) => EndedWith(MsgCancelled)

\* what the street fetch of the round gave fetch_map_data_parallel
StreetsYield == IF f["streets"].pc = "raised" THEN "None" ELSE f["streets"].val

\* C3: fetch_map_data_parallel fails exactly when the street fetch yields
\* None or an empty graph, and the graph it returns is non-empty
C3_FailsIffNoStreets ==
    cpc \in {"returned", "failed"} =>
        /\ (cpc = "failed") <=> (StreetsYield \in {"None", "empty"})
        /\ (cpc = "returned" => results["streets"] = "data")

\* the record shows the round's all-complete update
AllCompletePublished ==
    /\ HasKey("details")
    /\ Rec["status"] = "fetching_data"
    /\ Rec["details"] = psteps
    /\ \A k \in DOMAIN stepsHeap[psteps] : stepsHeap[psteps][k] = StepComplete

\* C4: the all-complete update is in the record only when the three fetchers
\* of the round have finished, and so is the round's success or failure
C4_JoinBeforeAllComplete ==
    (AllCompletePublished \/ cpc \in {"mark", "returned", "failed"}) =>
        \A d \in Datasets : Finished(d)

\* C4 witness: a round returned after all three fetchers called the provider
\* and the all-complete update is in the record
C4_Witness ==
    /\ cpc = "returned"
    /\ AllCompletePublished
    /\ \A d \in Datasets : prov[d] # "none"

\* C5: when the provider raised or gave an empty graph for the streets, the
\* renderer is not invoked for the round, no completed update is written, and
\* the job ends with the error naming the street network
C5_NoStreetsNoRender ==
    prov["streets"] \in {"raise", "empty"} =>
        /\ ~rendered
        /\ complCount = 0
        /\ (pc = "done" => EndedWith(InnerMessage(ExcNoGraph)))

\* C6: no job that obtained its street graph fails because of the water or
\* parks fetch
C6_FeaturesNeverAbort == failure # "features_cache"

\* C7: a water or parks fetcher the provider answered with an empty result
\* returns None
C7_EmptyFeaturesAbsent ==
    \A d \in {"water", "parks"} :
        (f[d].pc = "done" /\ prov[d] = "empty") => f[d].val = "None"

\* C8: a job that ended in failure, or after a checkpoint saw the cancel,
\* wrote exactly one error update and no completed update
C8_ExactlyOneError ==
    (pc = "done" /\ (failure # "none" \/ cancelSeen)) =>
        (errCount = 1 /\ complCount = 0)

\* C9: a record with status error holds neither file nor files
C9_ErrorHasNoArtifacts ==
    (HasKey("status") /\ Rec["status"] = "error") =>
        ("file" \notin DOMAIN Rec /\ "files" \notin DOMAIN Rec)

\* C9 witness: a job of several themes failed after a theme was saved
C9_Witness ==
    /\ HasKey("status")
    /\ Rec["status"] = "error"
    /\ Len(output_files) >= 2
    /\ saves >= 1

\* C10: the record holds the latest status and message, every cache-hit
\* report made so far, and every field an earlier update gave it
C10_ShallowMergeNoLostUpdate ==
    HasRec =>
        /\ \A k \in {"status", "message", "started_at", "cancelled", "cache_hits"} :
              k \in DOMAIN Rec
        /\ Rec["status"] = lastStatus.status
        /\ Rec["message"] = lastStatus.message
        /\ (cancelSeen => Rec["cancelled"])
        /\ \A d \in Datasets :
              reported[d] # "none" =>
                  /\ d \in DOMAIN hitsHeap[Rec["cache_hits"]]
                  /\ hitsHeap[Rec["cache_hits"]][d] = (reported[d] = "hit")

\* C10 witness: the water and parks threads and the job thread have all
\* reported, and api_cancel has written its flag after them
C10_Witness ==
    /\ HasKey("status")
    /\ Rec["status"] = "render_setup"
    /\ Rec["cancelled"]
    /\ reported["water"] = "miss"
    /\ reported["parks"] = "miss"
    /\ reported["streets"] = "hit"

\* api_progress has answered for the job's record
Answered ==
    /\ snap = EmptyDict
    /\ resp.op = "progress"
    /\ resp.body["status"] # "not_found"

\* C11: what api_progress returns is the record as it stood when the copy was
\* taken, whatever was written between the copy and the response
C11_SnapshotIsWholeUpdate == Answered => resp.body = Redact(WithPercent(snapAt))

\* C12: api_progress and api_cancel answer not_found only for ids that
\* api_create_poster never returned
C12_IssuedIdsAreKnown ==
    (resp.op \in {"progress", "cancel"} /\ resp.body["status"] = "not_found") =>
        resp.id \notin Issued

\* C13: api_cancel on a known id sets cancelled and leaves every other field
\* of the record, and the dicts it references, as they were; on an unknown id
\* it answers not_found and leaves the registry as it was
C13_CancelChangesOnlyFlag ==
    [][\A t \in Tids :
          ApiCancel(t) =>
              IF t \in DOMAIN progress_status
              THEN /\ DOMAIN progress_status' = DOMAIN progress_status
                   /\ DOMAIN progress_status'[t] = (DOMAIN progress_status[t]) \cup {"cancelled"}
                   /\ progress_status'[t]["cancelled"]
                   /\ \A k \in (DOMAIN progress_status[t]) \ {"cancelled"} :
                         progress_status'[t][k] = progress_status[t][k]
                   /\ hitsHeap' = hitsHeap
                   /\ stepsHeap' = stepsHeap
              ELSE /\ progress_status' = progress_status
                   /\ resp'.code = 404
                   /\ resp'.body["status"] = "not_found"]_vars

\* C13 witness: api_cancel was acknowledged for a job that had completed, and
\* the record still holds the completed status and its files
C13_Witness ==
    /\ resp.op = "cancel"
    /\ resp.code = 200
    /\ HasKey("files")
    /\ Rec["status"] = "completed"
    /\ Rec["cancelled"]

\* C14: a cancelled flag that is true stays true
C14_CancelledMonotonic ==
    [][is_cancelled(progress_status, Tid) => is_cancelled(progress_status', Tid)]_vars

\* C14 witness: the job went on updating its status after a checkpoint saw
\* the flag, and the flag is still set
C14_Witness ==
    /\ cancelSeen
    /\ HasKey("status")
    /\ Rec["status"] = "error"
    /\ Rec["cancelled"]

\* the cache_hits dict the record of the task references
CacheHitsOf(ps, heap) ==
    IF Tid \in DOMAIN ps /\ "cache_hits" \in DOMAIN ps[Tid]
    THEN heap[ps[Tid]["cache_hits"]]
    ELSE EmptyDict

\* C15: no step removes a dataset name from the record's cache_hits, and an
\* entry reported as a hit in the round stays true
C15_CacheHitsMonotonic ==
    [][LET old == CacheHitsOf(progress_status, hitsHeap)
           new == CacheHitsOf(progress_status', hitsHeap')
       IN  /\ DOMAIN old \subseteq DOMAIN new
           /\ \A d \in DOMAIN old :
                 (old[d] /\ reported[d] = "hit" /\ round' = round) => new[d]]_vars

\* C15 witness: in a later round the streets were a hit, the water a miss,
\* and the record shows both
C15_Witness ==
    /\ round = 2
    /\ reported["streets"] = "hit"
    /\ reported["water"] = "miss"
    /\ CacheHitsOf(progress_status, hitsHeap)["streets"]
    /\ ~CacheHitsOf(progress_status, hitsHeap)["water"]

C17_HitSkipsProvider ==
    [][\A d \in Datasets :
          /\ (f[d].pc = "cb" /\ f[d].hit /\ f'[d] # f[d]) =>
                /\ reported'[d] = "hit"
                /\ f'[d] = Returned(cache[d])
                /\ provCalls' = provCalls
                /\ cache' = cache
          /\ (provCalls'[d] # provCalls[d]) =>
                (reported[d] = "miss" /\ cache[d] = "none")]_vars

\* C17 witness: the water fetcher of the second round returned the entry the
\* first round cached, after one provider call in all
C17_Witness ==
    /\ round = 2
    /\ reported["water"] = "hit"
    /\ f["water"] = Returned("data")
    /\ provCalls["water"] = 1

\* C18: within one process, two queries have the same cache key exactly when
\* they agree on kind, position, radius, tag filter with its values, network
\* type and place or boundary name
C18_KeysDiscriminate ==
    (ka.run # 0 /\ kb.run # 0 /\ ka.run = kb.run)
        => (ka.key = kb.key <=> SameQuery(qa, qb))

\* C19: the same query has the same cache key in every run of the process
C19_KeysStableAcrossRestarts ==
    (ka.run # 0 /\ kb.run # 0 /\ qa = qb) => ka.key = kb.key

WriteFailed(t) ==
    /\ th[t].pc = "done"
    /\ th[t].val # "None"
    /\ th[t].wout \notin {"none", "ok"}

RuleOrder == << "coords", "subdistrict", "delineation", "country", "geocode" >>

Satisfied(i, r) ==
    CASE r = "coords" -> i.use_coordinates
      [] r = "subdistrict" -> i.kecamatan
      [] r = "delineation" -> i.use_delineation /\ i.kota /\ i.negara
      [] r = "country" -> i.negara /\ ~i.kota
      [] r = "geocode" -> i.kota /\ i.negara

FirstSatisfied(i) ==
    RuleOrder[CHOOSE k \in DOMAIN RuleOrder :
                 /\ Satisfied(i, RuleOrder[k])
                 /\ \A j \in 1..(k - 1) : ~Satisfied(i, RuleOrder[j])]

\* C22: once a validated request is resolved, the lookup under way or done is
\* the one of the first rule, in the order coordinates, subdistrict, city
\* delineation, country only, city and country, that the request satisfies,
\* and explicit coordinates make no lookup
C22_FirstRuleWins ==
    (variant = "job" /\ pc \in {"lookup_boundary", "lookup_geocode", "fetching_data"}) =>
        LET r == FirstSatisfied(input)
        IN  /\ ValidationError(input) = ""
            /\ pc = "lookup_boundary" => r \in BoundaryRules
            /\ pc = "lookup_geocode" => r = "geocode"
            /\ IF r = "coords"
               THEN Rec["status"] = "loading_theme"
               ELSE /\ Rec["status"] = IF r = "geocode" THEN "geocoding"
                                       ELSE "fetching_boundary"
                    /\ Rec["message"] = LookupMessage(r)

C22_Witness ==
    /\ variant = "job"
    /\ pc = "fetching_data"
    /\ input.kecamatan /\ input.use_delineation /\ input.kota /\ input.negara
    /\ Rec["message"] = LookupMessage("subdistrict")

\* a response of api_progress that carries a percentage
HasPercent(r) ==
    /\ r.op = "progress"
    /\ "percent" \in DOMAIN r.body
    /\ r.body["percent"] # PercentNone

\* C23: the percentage in the responses a polling client gets for a job never
\* decreases from one response to the next
C23_PercentNeverDecreases ==
    [][(HasPercent(resp) /\ HasPercent(resp'))
          => resp'.body["percent"] >= resp.body["percent"]]_vars

\* C24: in fetch_map_data_parallel a fetcher whose check finds the flag set
\* returns None with no cache lookup, report or provider call, and one whose
\* check finds it clear goes on to its fetcher; a fetcher past its check is
\* not stopped by a flag set later: a hit still returns the cached value and
\* a miss still calls the provider and returns what the fetcher makes of the
\* answer
C24_CheckedOnceAtStart ==
    [][\A d \in Datasets :
          LET c == is_cancelled(progress_status, Tid)
          IN  /\ (f[d].pc = "w_chk" /\ f'[d] # f[d]) =>
                    IF c
                    THEN /\ f'[d] = Returned("None")
                         /\ provCalls'[d] = provCalls[d]
                         /\ reported'[d] = reported[d]
                         /\ cache' = cache
                    ELSE f'[d].pc = "get"
              /\ (c /\ f[d].pc = "cb" /\ f[d].hit /\ f'[d] # f[d]) =>
                    f'[d] = Returned(f[d].val)
              /\ (c /\ f[d].pc = "cb" /\ ~f[d].hit /\ f'[d] # f[d]) =>
                    f'[d].pc = "provider"
              /\ (c /\ f[d].pc = "provider" /\ f'[d] # f[d]) =>
                    /\ provCalls'[d] = provCalls[d] + 1
                    /\ \/ f'[d] = Returned(ProviderYield(mode, prov'[d]))
                       \/ f'[d] = Returned("None") /\ cache'[d] = "bad"]_vars

C24_Witness ==
    /\ variant = "par"
    /\ is_cancelled(progress_status, Tid)
    /\ f["streets"] = Returned("data")
    /\ prov["streets"] = "data"
    /\ f["water"] = Returned("None")
    /\ prov["water"] = "none"
    /\ reported["water"] = "none"

\* C25: a job of N themes asks the provider for each dataset at most once
C25_OneFetchForAllThemes ==
    variant = "job" => \A d \in Datasets : provCalls[d] <= 1

\* the cache holds a complete entry for the key
EntryExists(d) == KeyFile \in DOMAIN d /\ d[KeyFile].whole

\* C26: once the cache holds a complete entry for a key, no step of any
\* fetcher changes or removes it
C26_EntryReadOnly ==
    [][EntryExists(disk) => (EntryExists(disk') /\ disk'[KeyFile] = disk[KeyFile])]_vars

\* C30: a cache_get never fails: it finds no entry, or one a cache_set wrote
\* completely, whatever cache_set calls failed before it or are under way
C30_GetNeverSeesPartialWrite ==
    [][\A t \in Threads :
          (th[t].pc = "get" /\ th'[t].pc = "done") => th'[t].ret # "raised"]_vars

\* the job's record names a terminal status
Terminal == HasRec /\ "status" \in DOMAIN Rec /\ Rec["status"] \in {"completed", "error"}

\* C27: every job that was submitted eventually ends with status completed
\* or error in its record, whatever is raised and whenever it is cancelled
C27_JobReachesTerminal ==
    (variant = "job" /\ pc # "new") ~> (pc = "done" /\ Terminal)

C27_Witness ==
    /\ pc = "done"
    /\ Terminal
    /\ is_cancelled(progress_status, Tid)
    /\ failure = "render"

\* C28: once the record's status is completed or error, no step of the job,
\* of api_cancel, api_progress or api_download changes the status, and the
\* files recorded with completed stay as they are
C28_TerminalAbsorbing ==
    [][Terminal =>
          /\ Tid \in DOMAIN progress_status'
          /\ progress_status'[Tid]["status"] = Rec["status"]
          /\ "files" \in DOMAIN Rec =>
                /\ "files" \in DOMAIN progress_status'[Tid]
                /\ progress_status'[Tid]["files"] = Rec["files"]]_vars

C28_Witness ==
    /\ Terminal
    /\ Rec["status"] = "completed"
    /\ is_cancelled(progress_status, Tid)
    /\ ~cancelSeen
    /\ resp.op = "progress"
    /\ IsStatus(resp.body, "completed")

\* C29: every file a job recorded under a theme was drawn with that theme
\* only: no render step of the job read a theme another job had set
C29_RenderedInOwnTheme ==
    variant = "themes" =>
        \A j \in Jobs : \A k \in DOMAIN rj[j].files :
            rj[j].files[k].used \subseteq {rj[j].files[k].theme}

====
